---- MODULE Spec2Model ----
(***************************************************************************)
(* Error-history tracking and threshold alerting of the Electric Load      *)
(* Forecasting repository:                                                 *)
(*   utils/error_history.py     ErrorHistoryTracker, get_tracker           *)
(*   Models/scheduler.py        evaluate_forecast_and_notify               *)
(*   utils/telegram_notifier.py TelegramNotifier                           *)
(*                                                                         *)
(* Python values are modelled structurally: a dict is an insertion-ordered *)
(* sequence of key/value items, a float is an exact rational num/den (with *)
(* den = 0 for +inf; rounding is not modelled), a str is its payload.      *)
(* Dates are the strings strftime('%Y-%m-%d') produces, modelled as the    *)
(* fixed-width zero-padded digit sequence of a day number and compared as  *)
(* Python compares strings.  The snapshot file is a sequence of JSON       *)
(* tokens, written by Dump and read back by a parser.                      *)
(***************************************************************************)
EXTENDS Integers, Sequences, FiniteSets, TLC

VARIABLES now, file, tracker, config, history, lastWrite, peer, notifier, last, ops

vars == <<now, file, tracker, config, history, lastWrite, peer, notifier, last, ops>>

(***************************************************************************)
(* Bounds of the model.                                                    *)
(***************************************************************************)
\* first and last calendar day of the modelled period (they straddle a
\* change in the number of significant digits: 08, 09, 10, ...)
FirstDay == 8
MaxDay == 12
\* store operations per behaviour
MaxOps == 2
\* evaluations per behaviour
MaxEvals == 2
\* the retention window the tracker is constructed with (default 30)
max_days == 2
\* calls on TelegramNotifier per behaviour
MaxCalls == 3
\* the significant bits of the float format in which rounding is modelled
\* (53 in the IEEE double of the code)
Precision == 8

Days == FirstDay..MaxDay

(***************************************************************************)
(* Python floats as exact rationals.                                       *)
(***************************************************************************)
RECURSIVE GCD(_, _)
GCD(a, b) == IF b = 0 THEN a ELSE GCD(b, a % b)

Abs(n) == IF n < 0 THEN -n ELSE n

PyFloat(n, d) ==
    IF d = 0
    THEN [kind |-> "float", num |-> IF n < 0 THEN -1 ELSE 1, den |-> 0]
    ELSE LET s == IF d < 0 THEN -1 ELSE 1
             g == GCD(Abs(n), Abs(d))
         IN  [kind |-> "float", num |-> (s * n) \div g, den |-> (s * d) \div g]

Inf == PyFloat(1, 0)
Zero == PyFloat(0, 1)
IsInf(x) == x.den = 0

\* x < y, x > y, x >= y on floats (den >= 0 always; +inf is 1/0)
FLt(x, y) == x.num * y.den < y.num * x.den
FGt(x, y) == FLt(y, x)
FLe(x, y) == ~FLt(y, x)
FAbs(x) == [x EXCEPT !.num = Abs(x.num)]
FSub(x, y) == PyFloat(x.num * y.den - y.num * x.den, x.den * y.den)
FMul(x, y) == PyFloat(x.num * y.num, x.den * y.den)
\* x / y for y # 0 (Python raises ZeroDivisionError for y = 0: callers test)
FDiv(x, y) == PyFloat(x.num * y.den, x.den * y.num)
FAdd(x, y) ==
    IF IsInf(x) THEN x ELSE IF IsInf(y) THEN y
    ELSE PyFloat(x.num * y.den + y.num * x.den, x.den * y.den)

RECURSIVE TwoTo(_)
TwoTo(k) == IF k = 0 THEN 1 ELSE 2 * TwoTo(k - 1)

RECURSIVE Normalize(_, _, _)
\* n / d = (n' / d') * 2^sh with 2^(Precision-1) <= n' / d' < 2^Precision
Normalize(n, d, sh) ==
    IF n >= d * TwoTo(Precision) THEN Normalize(n, 2 * d, sh + 1)
    ELSE IF n < d * TwoTo(Precision - 1) THEN Normalize(2 * n, d, sh - 1)
    ELSE [n |-> n, d |-> d, sh |-> sh]

\* the float nearest to the rational x, ties to even, in a binary format of
\* Precision significant bits (exponent range not modelled)
Round(x) ==
    IF IsInf(x) \/ x.num = 0 THEN x
    ELSE LET nm == Normalize(Abs(x.num), x.den, 0)
             M == nm.n \div nm.d
             rem == nm.n - M * nm.d
             up == 2 * rem > nm.d \/ (2 * rem = nm.d /\ M % 2 = 1)
             m == (IF x.num < 0 THEN -1 ELSE 1) * (IF up THEN M + 1 ELSE M)
         IN  IF nm.sh >= 0 THEN PyFloat(m * TwoTo(nm.sh), 1)
             ELSE PyFloat(m, TwoTo(-nm.sh))

\* float operations with the rounding of each result
RAdd(x, y) == Round(FAdd(x, y))
RSub(x, y) == Round(FSub(x, y))
RMul(x, y) == Round(FMul(x, y))
RDiv(x, y) == Round(FDiv(x, y))

PyStr(s) == [kind |-> "str", s |-> s]

(***************************************************************************)
(* Python dicts: insertion-ordered items.                                  *)
(***************************************************************************)
PyDict(items) == [kind |-> "dict", items |-> items]
PyList(items) == [kind |-> "list", items |-> items]
EmptyDict == PyDict(<<>>)

IsDict(v) == v.kind = "dict"
Keys(d) == {d.items[i].k : i \in 1..Len(d.items)}
HasKey(d, k) == \E i \in 1..Len(d.items) : d.items[i].k = k
DictGet(d, k) == d.items[CHOOSE i \in 1..Len(d.items) : d.items[i].k = k].v
\* d[k] = v: an existing key keeps its position, a new key goes last
DictSet(d, k, v) ==
    IF HasKey(d, k)
    THEN PyDict([i \in 1..Len(d.items) |->
                   IF d.items[i].k = k THEN [k |-> k, v |-> v] ELSE d.items[i]])
    ELSE PyDict(Append(d.items, [k |-> k, v |-> v]))

RECURSIVE UpdateItems(_, _, _)
UpdateItems(d, items, i) ==
    IF i > Len(items) THEN d
    ELSE UpdateItems(DictSet(d, items[i].k, items[i].v), items, i + 1)
\* d.update(other)
DictUpdate(d, other) == UpdateItems(d, other.items, 1)

(***************************************************************************)
(* Dates: strftime('%Y-%m-%d') and Python's str comparison.                *)
(***************************************************************************)
\* fixed-width, zero-padded
strftime(day) == <<day \div 10, day % 10>>

RECURSIVE StrLess(_, _)
\* a < b on Python strings (sequences of character codes)
StrLess(a, b) ==
    IF b = <<>> THEN FALSE
    ELSE IF a = <<>> THEN TRUE
    ELSE IF Head(a) # Head(b) THEN Head(a) < Head(b)
    ELSE StrLess(Tail(a), Tail(b))

StrGE(a, b) == ~StrLess(a, b)

\* the calendar day a well-formed date string denotes
DayOf(s) == 10 * s[1] + s[2]

DateStrs == {strftime(d) : d \in Days}

(***************************************************************************)
(* The snapshot file: json.dump / json.load over a sequence of tokens.     *)
(***************************************************************************)
Tok(t) == [t |-> t]
KeyTok(k) == [t |-> "key", s |-> k]

RECURSIVE Dump(_)
RECURSIVE DumpItems(_, _)
\* json.dump(value): the text written, token by token; floats are written
\* by repr, +inf as the literal Infinity (allow_nan is left at its default)
Dump(v) ==
    CASE v.kind = "dict" -> <<Tok("{")>> \o DumpItems(v.items, 1) \o <<Tok("}")>>
      [] v.kind = "list" -> <<Tok("[")>> \o <<Tok("]")>>
      [] v.kind = "float" ->
            IF IsInf(v) THEN <<Tok("Infinity")>>
            ELSE <<[t |-> "num", num |-> v.num, den |-> v.den]>>
      [] v.kind = "str" -> <<[t |-> "str", s |-> v.s]>>

DumpItems(items, i) ==
    IF i > Len(items) THEN <<>>
    ELSE <<KeyTok(items[i].k)>> \o Dump(items[i].v) \o DumpItems(items, i + 1)

ParseError == [ok |-> FALSE]

RECURSIVE ParseValue(_, _)
RECURSIVE ParseMembers(_, _, _)
\* the JSON value starting at token i: [ok, val, next]
ParseValue(toks, i) ==
    IF i > Len(toks) THEN ParseError
    ELSE LET tk == toks[i] IN
         CASE tk.t = "num" ->
                [ok |-> TRUE, val |-> PyFloat(tk.num, tk.den), next |-> i + 1]
           [] tk.t = "Infinity" -> [ok |-> TRUE, val |-> Inf, next |-> i + 1]
           [] tk.t = "str" -> [ok |-> TRUE, val |-> PyStr(tk.s), next |-> i + 1]
           [] tk.t = "{" -> ParseMembers(toks, i + 1, EmptyDict)
           [] tk.t = "[" ->
                IF i + 1 <= Len(toks) /\ toks[i + 1].t = "]"
                THEN [ok |-> TRUE, val |-> PyList(<<>>), next |-> i + 2]
                ELSE ParseError
           [] OTHER -> ParseError

ParseMembers(toks, i, acc) ==
    IF i > Len(toks) THEN ParseError
    ELSE IF toks[i].t = "}" THEN [ok |-> TRUE, val |-> acc, next |-> i + 1]
    ELSE IF toks[i].t = "key"
         THEN LET r == ParseValue(toks, i + 1) IN
              IF r.ok THEN ParseMembers(toks, r.next, DictSet(acc, toks[i].s, r.val))
              ELSE ParseError
    ELSE ParseError

\* a parser of strict JSON, which has no Infinity literal
json_load_strict(text) ==
    LET r == ParseValue(text, 1) IN
    IF r.ok /\ r.next = Len(text) + 1
          /\ \A i \in 1..Len(text) : text[i].t # "Infinity"
    THEN r ELSE ParseError

\* json.load(f): the value, or JSONDecodeError (also for trailing data)
json_load(text) ==
    LET r == ParseValue(text, 1) IN
    IF r.ok /\ r.next = Len(text) + 1 THEN r ELSE ParseError

NoFile == [exists |-> FALSE, text |-> <<>>]
FileOf(text) == [exists |-> TRUE, text |-> text]

\* ErrorHistoryTracker._load_history
_load_history(f) ==
    IF ~f.exists THEN EmptyDict
    ELSE LET r == json_load(f.text) IN
         IF r.ok THEN r.val ELSE EmptyDict

\* ErrorHistoryTracker._save_history under the outcome io of the file system:
\* "ok"; "open_fails" (mkdir or open raises, the file is untouched);
\* "write_fails" (open has truncated the file and the write raises after k
\* tokens).  text is json.dump's output for self.history.  Every exception
\* is caught and turned into False.
\* a save that reports success whatever happened
_save_history_unchecked(text, f, io, k) ==
    CASE io = "ok" -> [ret |-> TRUE, file |-> FileOf(text)]
      [] io = "open_fails" -> [ret |-> TRUE, file |-> f]
      [] io = "write_fails" -> [ret |-> TRUE, file |-> FileOf(SubSeq(text, 1, k))]

\* a save that does not replace a snapshot another writer has left
_save_history_if_absent(text, f, io, k) ==
    CASE io = "ok" -> [ret |-> TRUE, file |-> IF f.exists THEN f ELSE FileOf(text)]
      [] io = "open_fails" -> [ret |-> FALSE, file |-> f]
      [] io = "write_fails" -> [ret |-> FALSE, file |-> FileOf(SubSeq(text, 1, k))]

\* a save that appends the text to what the file holds
_save_history_append(text, f, io, k) ==
    CASE io = "ok" -> [ret |-> TRUE, file |-> FileOf(f.text \o text)]
      [] io = "open_fails" -> [ret |-> FALSE, file |-> f]
      [] io = "write_fails" -> [ret |-> FALSE, file |-> FileOf(f.text \o SubSeq(text, 1, k))]

_save_history(text, f, io, k) ==
    CASE io = "ok" -> [ret |-> TRUE, file |-> FileOf(text)]
      [] io = "open_fails" -> [ret |-> FALSE, file |-> f]
      [] io = "write_fails" -> [ret |-> FALSE, file |-> FileOf(SubSeq(text, 1, k))]

(***************************************************************************)
(* ErrorHistoryTracker                                                     *)
(***************************************************************************)
PyNone == [kind |-> "None"]

\* datetime.now().isoformat(), at the resolution of the model's clock
isoformat(t) == strftime(t)

\* a pruning whose cutoff is one day too early
_prune_old_entries_late(h, t) ==
    LET cutoff_date == strftime(t - max_days - 1)
        recent_entries(m) == SelectSeq(m.items, LAMBDA it : StrGE(it.k, cutoff_date))
    IN  PyDict([i \in 1..Len(h.items) |->
                  [k |-> h.items[i].k, v |-> PyDict(recent_entries(h.items[i].v))]])

\* ErrorHistoryTracker._prune_old_entries at instant t
_prune_old_entries(h, t) ==
    LET cutoff_date == strftime(t - max_days)
        recent_entries(m) == SelectSeq(m.items, LAMBDA it : StrGE(it.k, cutoff_date))
    IN  PyDict([i \in 1..Len(h.items) |->
                  [k |-> h.items[i].k, v |-> PyDict(recent_entries(h.items[i].v))]])

\* the entry add_error builds (lines 110-117)
NewEntry(error_value, additional_metrics, t) ==
    LET entry == PyDict(<<[k |-> "error", v |-> error_value],
                          [k |-> "timestamp", v |-> PyStr(isoformat(t))]>>)
    IN  IF additional_metrics.kind = "dict" /\ additional_metrics.items # <<>>
        THEN DictUpdate(entry, additional_metrics)
        ELSE entry

\* forecast_date, or today's date when it is None (lines 102-103 of
\* error_history.py, lines 44-45 of scheduler.py)
DateOrToday(forecast_date, t) ==
    IF forecast_date = PyNone THEN strftime(t) ELSE forecast_date.s

\* an add_error that prunes relative to the date it wrote
AddToHistory_written_date(h, model_name, error_value, forecast_date, additional_metrics, t) ==
    IF ~IsDict(h) THEN [raised |-> TRUE, history |-> h]
    ELSE LET date == DateOrToday(forecast_date, t)
             h1 == IF HasKey(h, model_name) THEN h
                   ELSE DictSet(h, model_name, EmptyDict)
             entry == NewEntry(error_value, additional_metrics, t)
             h2 == DictSet(h1, model_name,
                           DictSet(DictGet(h1, model_name), date, entry))
         IN  [raised |-> FALSE, history |-> _prune_old_entries(h2, DayOf(date))]

\* the in-memory part of add_error (lines 101-123): [raised, history].
\* A history that is no dict (loaded from a snapshot of another shape) makes
\* the item assignment of line 107 raise TypeError.
AddToHistory(h, model_name, error_value, forecast_date, additional_metrics, t) ==
    IF ~IsDict(h) THEN [raised |-> TRUE, history |-> h]
    ELSE LET date == DateOrToday(forecast_date, t)
             h1 == IF HasKey(h, model_name) THEN h
                   ELSE DictSet(h, model_name, EmptyDict)
             entry == NewEntry(error_value, additional_metrics, t)
             h2 == DictSet(h1, model_name,
                           DictSet(DictGet(h1, model_name), date, entry))
         IN  [raised |-> FALSE, history |-> _prune_old_entries(h2, t)]

\* the path ErrorHistoryTracker uses when history_file is None (lines 41-44)
DefaultHistoryFile == PyStr(<<"src", "data", "error_history.json">>)

\* the file at a path: the snapshot f at the default path; the modelled file
\* system holds no other file
FileAt(f, path) == IF path = DefaultHistoryFile THEN f ELSE NoFile

\* ErrorHistoryTracker.__init__ (lines 31-49) over the snapshot f; objects
\* are identified by the order of their construction in the process
ErrorHistoryTracker_init(cfg, f, history_file, max_days_arg) ==
    LET path == IF history_file = PyNone THEN DefaultHistoryFile ELSE history_file
    IN  [config |-> [id |-> IF cfg = PyNone THEN 1 ELSE cfg.id + 1,
                     history_file |-> path, max_days |-> max_days_arg],
         history |-> _load_history(FileAt(f, path))]

\* a get_tracker that constructs a tracker on every call
get_tracker_always_new(trk, cfg, h, f, history_file, max_days_arg) ==
    ErrorHistoryTracker_init(cfg, f, history_file, max_days_arg)

\* get_tracker(history_file, max_days) (lines 216-232): the instance it
\* returns, as [config, history]
get_tracker(trk, cfg, h, f, history_file, max_days_arg) ==
    IF ~trk
    THEN ErrorHistoryTracker_init(cfg, f, history_file, max_days_arg)
    ELSE [config |-> cfg, history |-> h]

\* ErrorHistoryTracker.get_model_history
get_model_history(h, model_name) ==
    IF HasKey(h, model_name) THEN DictGet(h, model_name) ELSE EmptyDict

RECURSIVE InsertByDate(_, _)
\* pair put into a sequence sorted by date, after the pairs of equal date
InsertByDate(sorted, pair) ==
    IF sorted = <<>> THEN <<pair>>
    ELSE IF StrLess(pair.date, Head(sorted).date) THEN <<pair>> \o sorted
    ELSE <<Head(sorted)>> \o InsertByDate(Tail(sorted), pair)

RECURSIVE SortedByDate(_)
\* sorted(pairs, key=lambda x: x[0])
SortedByDate(pairs) ==
    IF pairs = <<>> THEN <<>>
    ELSE InsertByDate(SortedByDate(SubSeq(pairs, 1, Len(pairs) - 1)), pairs[Len(pairs)])

\* ErrorHistoryTracker.get_recent_errors at instant t
get_recent_errors(h, model_name, days, t) ==
    LET model_history == get_model_history(h, model_name)
        cutoff_date == strftime(t - days)
        recent == SelectSeq(model_history.items, LAMBDA it : StrGE(it.k, cutoff_date))
    IN  IF model_history.items = <<>> THEN <<>>
        ELSE SortedByDate([i \in 1..Len(recent) |->
                             [date |-> recent[i].k, error |-> DictGet(recent[i].v, "error")]])

RECURSIVE FSum(_)
FSum(xs) == IF xs = <<>> THEN Zero ELSE FAdd(Head(xs), FSum(Tail(xs)))

RECURSIVE FMin(_)
FMin(xs) ==
    IF Len(xs) = 1 THEN xs[1]
    ELSE LET m == FMin(Tail(xs)) IN IF FLt(m, Head(xs)) THEN m ELSE Head(xs)

RECURSIVE FMax(_)
FMax(xs) ==
    IF Len(xs) = 1 THEN xs[1]
    ELSE LET m == FMax(Tail(xs)) IN IF FGt(m, Head(xs)) THEN m ELSE Head(xs)

\* the threshold of get_error_statistics' above_threshold_count
STATS_THRESHOLD == PyFloat(5, 1)

\* statistics that ignore the days argument and cover the retention window
get_error_statistics_all(h, model_name, days, t) ==
    LET pairs == get_recent_errors(h, model_name, max_days, t)
        recent_errors == [i \in 1..Len(pairs) |-> pairs[i].error]
    IN  IF recent_errors = <<>>
        THEN [count |-> 0, min |-> PyNone, max |-> PyNone, avg |-> PyNone,
              above_threshold_count |-> 0]
        ELSE [count |-> Len(recent_errors),
              min |-> FMin(recent_errors),
              max |-> FMax(recent_errors),
              avg |-> FDiv(FSum(recent_errors), PyFloat(Len(recent_errors), 1)),
              above_threshold_count |->
                  Cardinality({i \in 1..Len(recent_errors) :
                                  FGt(recent_errors[i], STATS_THRESHOLD)})]

\* ErrorHistoryTracker.get_error_statistics at instant t
get_error_statistics(h, model_name, days, t) ==
    LET pairs == get_recent_errors(h, model_name, days, t)
        recent_errors == [i \in 1..Len(pairs) |-> pairs[i].error]
    IN  IF recent_errors = <<>>
        THEN [count |-> 0, min |-> PyNone, max |-> PyNone, avg |-> PyNone,
              above_threshold_count |-> 0]
        ELSE [count |-> Len(recent_errors),
              min |-> FMin(recent_errors),
              max |-> FMax(recent_errors),
              avg |-> FDiv(FSum(recent_errors), PyFloat(Len(recent_errors), 1)),
              above_threshold_count |->
                  Cardinality({i \in 1..Len(recent_errors) :
                                  FGt(recent_errors[i], STATS_THRESHOLD)})]

(***************************************************************************)
(* Models/scheduler.py: evaluate_forecast_and_notify                       *)
(***************************************************************************)
\* thresholds of the alert decision
ALERT_THRESHOLD == PyFloat(5, 1)
CRITICAL_THRESHOLD == PyFloat(10, 1)
TREND_FACTOR == PyFloat(3, 2)
\* days of the statistics queried for the trend clause
STATS_DAYS == 7

Hundred == PyFloat(100, 1)

\* an absolute percentage error that forgets the absolute value
error_pct_signed(actual_value, predicted_value) ==
    IF actual_value = Zero
    THEN IF predicted_value # Zero THEN Inf ELSE Zero
    ELSE FMul(FDiv(FSub(actual_value, predicted_value), actual_value), Hundred)

\* lines 36-39: the absolute percentage error
error_pct_of(actual_value, predicted_value) ==
    IF actual_value = Zero
    THEN IF predicted_value # Zero THEN Inf ELSE Zero
    ELSE FMul(FAbs(FDiv(FSub(actual_value, predicted_value), actual_value)), Hundred)

\* a percentage error that is not scaled to percent
error_pct_rounded_unscaled(actual_value, predicted_value) ==
    IF actual_value = Zero
    THEN IF predicted_value # Zero THEN Inf ELSE Zero
    ELSE FAbs(RDiv(RSub(actual_value, predicted_value), actual_value))

\* lines 36-39 with the rounding of every float operation
error_pct_rounded(actual_value, predicted_value) ==
    IF actual_value = Zero
    THEN IF predicted_value # Zero THEN Inf ELSE Zero
    ELSE RMul(FAbs(RDiv(RSub(actual_value, predicted_value), actual_value)), Hundred)

NoStats == [count |-> 0, min |-> PyNone, max |-> PyNone, avg |-> PyNone]

\* what a try block hands on when its except clause does not catch
Uncaught(exc) == exc # "none"

\* except Exception as e: print(...): whatever was raised is absorbed
Caught(exc) == FALSE

\* a history block that queries the statistics before it records the
\* observation
HistoryBlock_stats_first(trk, h, f, o, actual_value, predicted_value, error_pct, model_name, forecast_date, t) ==
    LET h0 == IF trk THEN h ELSE _load_history(f)
        additional_metrics ==
            PyDict(<<[k |-> "actual", v |-> actual_value],
                     [k |-> "predicted", v |-> predicted_value],
                     [k |-> "abs_error", v |-> FAbs(FSub(actual_value, predicted_value))]>>)
        r == AddToHistory(h0, model_name, error_pct, forecast_date, additional_metrics, t)
    IN  IF r.raised
        THEN [history |-> h0, file |-> f, stats |-> NoStats, exc |-> "TypeError",
              add_error |-> "raised",
              calls |-> <<"get_tracker", "add_error">>]
        ELSE LET text == Dump(r.history)
                 sv == _save_history(text, f, o, Len(text) - 1)
             IN  [history |-> r.history, file |-> sv.file,
                  stats |-> get_error_statistics(h0, model_name, STATS_DAYS, t),
                  exc |-> "none",
                  add_error |-> IF sv.ret THEN "true" ELSE "false",
                  calls |-> <<"get_tracker", "get_error_statistics", "add_error">>]

\* lines 55-81, the try block that records the observation, on the tracker
\* (trk, h) and the snapshot f, under the file system outcome o:
\* get_tracker, add_error, get_error_statistics
HistoryBlock(trk, h, f, o, actual_value, predicted_value, error_pct, model_name, forecast_date, t) ==
    LET h0 == IF trk THEN h ELSE _load_history(f)
        additional_metrics ==
            PyDict(<<[k |-> "actual", v |-> actual_value],
                     [k |-> "predicted", v |-> predicted_value],
                     [k |-> "abs_error", v |-> FAbs(FSub(actual_value, predicted_value))]>>)
        r == AddToHistory(h0, model_name, error_pct, forecast_date, additional_metrics, t)
    IN  IF r.raised
        THEN [history |-> h0, file |-> f, stats |-> NoStats, exc |-> "TypeError",
              add_error |-> "raised",
              calls |-> <<"get_tracker", "add_error">>]
        ELSE LET text == Dump(r.history)
                 sv == _save_history(text, f, o, Len(text) - 1)
             IN  [history |-> r.history, file |-> sv.file,
                  stats |-> get_error_statistics(r.history, model_name, STATS_DAYS, t),
                  exc |-> "none",
                  add_error |-> IF sv.ret THEN "true" ELSE "false",
                  calls |-> <<"get_tracker", "add_error", "get_error_statistics">>]

NoAlert == [invoked |-> FALSE, level |-> "none", trend |-> FALSE, delivered |-> FALSE]

\* lines 84-113, the alerting branch and its try block: credentials tells
\* whether the token and chat id are configured, delivery what send_alert
\* returns
AlertBlock(error_pct, stats, credentials, delivery) ==
    IF ~FGt(error_pct, ALERT_THRESHOLD)
    THEN [alert |-> NoAlert, exc |-> "none", calls |-> <<>>]
    ELSE IF ~credentials
    THEN [alert |-> NoAlert, exc |-> "ValueError", calls |-> <<"TelegramNotifier">>]
    ELSE LET level == IF FGt(error_pct, CRITICAL_THRESHOLD) THEN "critical" ELSE "error"
             trend == /\ stats.avg # PyNone
                      /\ FGt(error_pct, FMul(stats.avg, TREND_FACTOR))
         IN  IF trend /\ stats.avg = Zero
             THEN [alert |-> NoAlert, exc |-> "ZeroDivisionError",
                   calls |-> <<"TelegramNotifier">>]
             ELSE [alert |-> [invoked |-> TRUE, level |-> level, trend |-> trend,
                              delivered |-> delivery],
                   exc |-> "none", calls |-> <<"TelegramNotifier", "send_alert">>]

(***************************************************************************)
(* utils/telegram_notifier.py: TelegramNotifier                            *)
(*                                                                         *)
(* A str is the sequence of its parts (a token "123:abc" is its            *)
(* ':'-separated parts <<"123", "abc">>), the empty str the empty sequence.*)
(***************************************************************************)
\* bool(v) of None and of a str
Truthy(v) == v # PyNone /\ v.s # <<>>

\* a or b
PyOr(a, b) == IF Truthy(a) THEN a ELSE b

\* TelegramNotifier._validate_and_fix_token: a token with more than one
\* colon is cut down to its first two parts
_validate_and_fix_token(token) ==
    IF Len(token.s) - 1 > 1 THEN PyStr(<<token.s[1], token.s[2]>>) ELSE token

\* a validation that refuses only when both credentials are missing
TelegramNotifier_init_lenient(token, chat_id, timezone, environ) ==
    LET tk == PyOr(token, environ.TELEGRAM_BOT_TOKEN)
        ch == PyOr(chat_id, environ.TELEGRAM_CHAT_ID)
    IN  IF ~Truthy(tk) /\ ~Truthy(ch)
        THEN [raised |-> TRUE, exc |-> "ValueError", self |-> PyNone]
        ELSE [raised |-> FALSE, exc |-> "none",
              self |-> [token |-> IF Truthy(tk) THEN _validate_and_fix_token(tk) ELSE tk,
                        chat_id |-> ch, timezone |-> timezone]]

\* TelegramNotifier.__init__ under the environment environ (os.environ after
\* load_dotenv; a variable that is not set reads as None): the attributes of
\* the new object, or ValueError
TelegramNotifier_init(token, chat_id, timezone, environ) ==
    LET tk == PyOr(token, environ.TELEGRAM_BOT_TOKEN)
        ch == PyOr(chat_id, environ.TELEGRAM_CHAT_ID)
    IN  IF ~Truthy(tk) \/ ~Truthy(ch)
        THEN [raised |-> TRUE, exc |-> "ValueError", self |-> PyNone]
        ELSE [raised |-> FALSE, exc |-> "none",
              self |-> [token |-> _validate_and_fix_token(tk),
                        chat_id |-> ch, timezone |-> timezone]]

\* the methods the class TelegramNotifier defines
TelegramNotifierMethods ==
    {"__init__", "_validate_and_fix_token", "send_alert", "test_connection",
     "_send_message"}

\* str.lower() on the severity strings of the model
Lower(error_level) ==
    CASE error_level = "ERROR" -> "error"
      [] error_level = "Critical" -> "critical"
      [] OTHER -> error_level

emoji_map ==
    [error_level \in {"info", "warning", "error", "critical"} |->
        CASE error_level = "info" -> "information"
          [] error_level = "warning" -> "warning_sign"
          [] error_level = "error" -> "rotating_light"
          [] error_level = "critical" -> "fire"]

\* emoji_map.get(error_level.lower(), the info emoji)
EmojiOf(error_level) ==
    IF Lower(error_level) \in DOMAIN emoji_map
    THEN emoji_map[Lower(error_level)] ELSE emoji_map["info"]

\* the zone names pytz knows, among those of the model
KnownTimeZones == {"Asia/Kolkata", "UTC"}

\* format(x, '.2f') of a non-negative float: the hundredths, or inf
Fmt2(x) ==
    IF IsInf(x) THEN PyStr(<<"inf">>)
    ELSE PyStr(<<(2 * 100 * x.num + x.den) \div (2 * x.den)>>)

\* the outcomes of requests.post(...) followed by raise_for_status()
HttpOutcomes == {"200", "HTTPError", "Timeout", "ConnectionError", "Exception"}

\* TelegramNotifier._send_message under the outcome http: one request is
\* posted, and every exception is caught and turned into False
_send_message(self, message, http) ==
    [ret |-> http = "200",
     posts |-> <<[token |-> self.token, chat_id |-> self.chat_id, text |-> message]>>]

\* TelegramNotifier.send_alert at instant t: the message is formatted (the
\* zone lookup of line 96 raises for a name pytz does not know) and handed
\* to _send_message
send_alert(self, message, error_level, model_name, error_value, t, http) ==
    IF self.timezone \notin KnownTimeZones
    THEN [raised |-> TRUE, exc |-> "UnknownTimeZoneError", ret |-> PyNone,
          posts |-> <<>>, formatted_message |-> PyNone]
    ELSE LET formatted_message ==
                 [emoji |-> EmojiOf(error_level),
                  model |-> IF Truthy(model_name) THEN model_name ELSE PyNone,
                  error |-> IF error_value # PyNone THEN Fmt2(error_value) ELSE PyNone,
                  message |-> message,
                  time |-> strftime(t)]
             r == _send_message(self, formatted_message, http)
         IN  [raised |-> FALSE, exc |-> "none", ret |-> r.ret, posts |-> r.posts,
              formatted_message |-> formatted_message]

ConnectionTestMessage == [message |-> "Connection Test"]

\* TelegramNotifier.test_connection
test_connection(self, http) ==
    LET result == _send_message(self, ConnectionTestMessage, http)
    IN  [raised |-> FALSE, exc |-> "none", ret |-> result.ret, posts |-> result.posts]

(***************************************************************************)
(* The environment and the inputs of the model.                            *)
(***************************************************************************)
Models == {"ARIMA", "LSTM"}

ErrorValues == {PyFloat(7, 1), Inf}

\* additional_metrics a caller may pass to add_error
MetricsChoices ==
    { PyNone,
      PyDict(<<[k |-> "abs_error", v |-> PyFloat(1, 1)],
               [k |-> "error", v |-> PyFloat(99, 1)],
               [k |-> "timestamp", v |-> PyStr(<<0, 0>>)]>>) }

\* forecast_date arguments at instant t: a day older than the retention
\* window, the oldest day inside it, and None (today)
ForecastDates(t) ==
    {PyStr(strftime(t - max_days - 1)), PyStr(strftime(t - max_days)), PyNone}

\* a snapshot left by an earlier run of the tracker, on day FirstDay + 1
EarlierSnapshot ==
    LET e(err, t) == PyDict(<<[k |-> "error", v |-> err],
                              [k |-> "timestamp", v |-> PyStr(isoformat(t))]>>)
    IN  PyDict(<<
          [k |-> "ARIMA", v |-> PyDict(<<
              [k |-> strftime(FirstDay), v |-> e(Zero, FirstDay)],
              [k |-> strftime(FirstDay + 1), v |-> e(Inf, FirstDay + 1)]>>)],
          [k |-> "LSTM", v |-> PyDict(<<
              [k |-> strftime(FirstDay + 1), v |-> e(PyFloat(3, 1), FirstDay + 1)]>>)]>>)

\* what the storage location may hold when the program starts: nothing, text
\* that is no JSON, JSON that is no snapshot, or an earlier snapshot
InitFiles ==
    { NoFile,
      FileOf(<<Tok("junk")>>),
      FileOf(<<Tok("["), Tok("]")>>),
      FileOf(Dump(EarlierSnapshot)) }

NoWrites == [key \in Models \X DateStrs |-> PyNone]

Init ==
    /\ now = FirstDay + max_days + 1
    /\ file \in InitFiles
    /\ tracker = FALSE
    /\ config = PyNone
    /\ history = EmptyDict
    /\ lastWrite = NoWrites
    /\ peer = PyNone
    /\ notifier = PyNone
    /\ last = [op |-> "init"]
    /\ ops = 0

(***************************************************************************)
(* Actions.                                                                *)
(***************************************************************************)
\* a day passes
Tick ==
    /\ now < MaxDay
    /\ now' = now + 1
    /\ last' = [op |-> "tick"]
    /\ UNCHANGED <<file, tracker, config, history, lastWrite, peer, notifier, ops>>

\* ErrorHistoryTracker.__init__ through get_tracker: the singleton is built
\* on first use and loads the snapshot
Construct ==
    /\ ~tracker
    /\ tracker' = TRUE
    /\ \E t \in {get_tracker(tracker, config, history, file, PyNone, max_days)} :
         /\ config' = t.config
         /\ history' = t.history
    /\ lastWrite' = NoWrites
    /\ last' = [op |-> "construct"]
    /\ UNCHANGED <<now, file, peer, notifier, ops>>

\* the arguments of a later get_tracker call
HistoryFileArgs == {PyNone, PyStr(<<"other.json">>)}
MaxDaysArgs == {max_days, max_days + 1}

\* get_tracker(history_file, max_days) called when the process has its
\* tracker
GetTrackerAgain ==
    /\ tracker
    /\ ops < MaxOps
    /\ ops' = ops + 1
    /\ \E history_file \in HistoryFileArgs, max_days_arg \in MaxDaysArgs :
         \E t \in {get_tracker(tracker, config, history, file, history_file, max_days_arg)} :
           /\ config' = t.config
           /\ history' = t.history
           /\ last' = [op |-> "get_tracker", history_file |-> history_file,
                       max_days |-> max_days_arg, ret |-> t.config.id]
    /\ UNCHANGED <<now, file, tracker, lastWrite, peer, notifier>>

\* the lengths at which an interrupted write may stop: nothing written, or
\* all but the closing token
Prefixes(text) == {0, Len(text) - 1}

\* the outcomes of the file system for one write of text
IoOutcomes(text) ==
    {[io |-> "ok", k |-> 0], [io |-> "open_fails", k |-> 0]}
        \cup {[io |-> "write_fails", k |-> k] : k \in Prefixes(text)}

\* tracker.add_error(model_name, error_value, forecast_date, additional_metrics)
AddError(model_name, error_value, forecast_date, additional_metrics) ==
    /\ tracker
    /\ ops < MaxOps
    /\ ops' = ops + 1
    /\ \E r \in {AddToHistory(history, model_name, error_value, forecast_date,
                              additional_metrics, now)} :
         LET date == DateOrToday(forecast_date, now)
             call == [op |-> "add_error", model_name |-> model_name,
                      error_value |-> error_value, forecast_date |-> date,
                      additional_metrics |-> additional_metrics]
         IN  IF r.raised
             THEN /\ last' = call @@ [ret |-> "raised", io |-> "none"]
                  /\ UNCHANGED <<file, history, lastWrite>>
             ELSE \E text \in {Dump(r.history)} : \E o \in IoOutcomes(text) :
                    \E s \in {_save_history(text, file, o.io, o.k)} :
                      /\ history' = r.history
                      /\ file' = s.file
                      /\ lastWrite' = [lastWrite EXCEPT
                                         ![<<model_name, date>>] = error_value]
                      /\ last' = call @@ [ret |-> IF s.ret THEN "true" ELSE "false",
                                          io |-> o.io]
    /\ UNCHANGED <<now, tracker, config, peer, notifier>>

AddErrorCall ==
    \E model_name \in Models, error_value \in ErrorValues, d \in ForecastDates(now),
       additional_metrics \in MetricsChoices :
         AddError(model_name, error_value, d, additional_metrics)

\* the process dies inside add_error's rewrite of the snapshot (line 80-81):
\* open(..., 'w') has truncated the file and k tokens have reached it
Crash ==
    /\ tracker
    /\ ops < MaxOps
    /\ ops' = ops + 1
    /\ \E model_name \in Models, error_value \in ErrorValues, d \in ForecastDates(now) :
         \E r \in {AddToHistory(history, model_name, error_value, d, PyNone, now)} :
             /\ ~r.raised
             /\ \E text \in {Dump(r.history)} :
                  \E k \in Prefixes(text) \cup {Len(text)} :
                    /\ file' = FileOf(SubSeq(text, 1, k))
                    /\ last' = [op |-> "crash", before |-> _load_history(file),
                                after |-> r.history]
    /\ tracker' = FALSE
    /\ config' = PyNone
    /\ history' = EmptyDict
    /\ lastWrite' = NoWrites
    /\ UNCHANGED <<now, peer, notifier>>

\* the process ends; the next one starts without a tracker
Exit ==
    /\ tracker
    /\ ops < MaxOps
    /\ ops' = ops + 1
    /\ tracker' = FALSE
    /\ config' = PyNone
    /\ history' = EmptyDict
    /\ lastWrite' = NoWrites
    /\ notifier' = PyNone
    /\ last' = [op |-> "exit"]
    /\ UNCHANGED <<now, file, peer>>


(***************************************************************************)
(* The dashboard helper and the test-data command (src/server/swag).       *)
(***************************************************************************)
\* a violation counter that has drifted to 7.5
DASH_COUNT_THRESHOLD_drifted == PyFloat(15, 2)

\* the two literals of get_formatted_error_history: is_violation (line 87)
\* and the violation counters (line 91)
DASH_FLAG_THRESHOLD == PyFloat(5, 1)
DASH_COUNT_THRESHOLD == PyFloat(5, 1)

RECURSIVE SortedDates(_)
\* sorted(list(all_dates))
SortedDates(S) ==
    IF S = {} THEN <<>>
    ELSE LET d == CHOOSE x \in S : \A y \in S : ~StrLess(y, x)
         IN  <<d>> \o SortedDates(S \ {d})

\* the result get_formatted_error_history starts from (lines 21-30)
EmptyResult ==
    [has_data |-> FALSE, dates |-> <<>>, models |-> <<>>,
     threshold_violations |-> 0, total_forecasts |-> 0]

\* model_data of one model (lines 64-105): its name, one item per date of
\* sorted_dates, and its violations
ModelData(model, dates, sorted_dates) ==
    LET item(date) ==
            IF HasKey(dates, date)
            THEN [date |-> date, value |-> DictGet(DictGet(dates, date), "error"),
                  is_violation |-> FGt(DictGet(DictGet(dates, date), "error"),
                                       DASH_FLAG_THRESHOLD)]
            ELSE [date |-> date, value |-> PyNone, is_violation |-> FALSE]
        counted(date) ==
            /\ HasKey(dates, date)
            /\ FGt(DictGet(DictGet(dates, date), "error"), DASH_COUNT_THRESHOLD)
    IN  [name |-> model,
         errors |-> [i \in 1..Len(sorted_dates) |-> item(sorted_dates[i])],
         forecasts |-> Cardinality({i \in 1..Len(sorted_dates) :
                                      HasKey(dates, sorted_dates[i])}),
         violations |-> Cardinality({i \in 1..Len(sorted_dates) :
                                       counted(sorted_dates[i])})]

RECURSIVE Sum(_)
\* the sum of a sequence of counters
Sum(xs) == IF xs = <<>> THEN 0 ELSE Head(xs) + Sum(Tail(xs))

\* get_formatted_error_history(days) at instant t, reading the snapshot f:
\* the default result when the file is missing, unreadable, empty or no
\* mapping (lines 33-34, 41-42, 129-131)
get_formatted_error_history(f, days, t) ==
    LET history_data == _load_history(f)
    IN  IF ~IsDict(history_data) \/ history_data = EmptyDict THEN EmptyResult
        ELSE LET cutoff_date == strftime(t - days)
                 all_dates == UNION {{d \in Keys(DictGet(history_data, m)) :
                                        StrGE(d, cutoff_date)} : m \in Keys(history_data)}
                 sorted_dates == SortedDates(all_dates)
                 all_models == [i \in 1..Len(history_data.items) |->
                                  ModelData(history_data.items[i].k,
                                            history_data.items[i].v, sorted_dates)]
                 shown == SelectSeq(all_models, LAMBDA md : md.forecasts > 0)
             IN  [has_data |-> shown # <<>>,
                  dates |-> sorted_dates,
                  models |-> shown,
                  threshold_violations |->
                      IF shown = <<>> THEN 0
                      ELSE Sum([i \in 1..Len(shown) |-> shown[i].violations]),
                  total_forecasts |->
                      IF shown = <<>> THEN 0
                      ELSE Sum([i \in 1..Len(shown) |-> shown[i].forecasts])]

\* the entry generate_test_errors writes for a drawn error (lines 62-83)
GeneratedEntry(model, draw, t) ==
    LET base == PyFloat(draw.error, 1)
        error == IF model = "ARIMA" THEN FMul(base, PyFloat(11, 10))
                 ELSE IF model = "LSTM" THEN FMul(base, PyFloat(9, 10))
                 ELSE base
        actual == PyFloat(400, 1)
        predicted == FMul(actual, FAdd(PyFloat(1, 1),
                              FMul(FDiv(error, Hundred), PyFloat(draw.sign, 1))))
    IN  PyDict(<<[k |-> "error", v |-> error],
                 [k |-> "timestamp", v |-> PyStr(isoformat(t))],
                 [k |-> "actual", v |-> actual],
                 [k |-> "predicted", v |-> predicted],
                 [k |-> "abs_error", v |-> FAbs(FSub(actual, predicted))]>>)

RECURSIVE GenerateDays(_, _, _, _, _, _, _)
\* the loop over range(days) of lines 56-83 for models[i], from day on
GenerateDays(dates, model, i, day, options, draws, t) ==
    IF day >= options.days THEN dates
    ELSE LET date == strftime(t - day)
             next == IF ~HasKey(dates, date) \/ options.clear
                     THEN DictSet(dates, date, GeneratedEntry(model, draws[<<i, day>>], t))
                     ELSE dates
         IN  GenerateDays(next, model, i, day + 1, options, draws, t)

RECURSIVE GenerateModels(_, _, _, _, _)
\* the loop over models of lines 51-83, from models[i] on
GenerateModels(history_data, i, options, draws, t) ==
    IF i > Len(options.models) THEN history_data
    ELSE LET model == options.models[i]
             hd == IF HasKey(history_data, model) THEN history_data
                   ELSE DictSet(history_data, model, EmptyDict)
         IN  GenerateModels(
                 DictSet(hd, model,
                         GenerateDays(DictGet(hd, model), model, i, 0, options, draws, t)),
                 i + 1, options, draws, t)

\* Command.handle of generate_test_errors (lines 26-95) on the snapshot f:
\* [raised, file]. A loaded value that is no mapping makes the item
\* assignment of line 53 raise TypeError before anything is written.
generate_test_errors(f, options, draws, t) ==
    LET history_data == IF options.clear THEN EmptyDict ELSE _load_history(f)
    IN  IF ~IsDict(history_data) THEN [raised |-> TRUE, file |-> f]
        ELSE [raised |-> FALSE,
              file |-> FileOf(Dump(GenerateModels(history_data, 1, options, draws, t)))]

\* a second process constructs its tracker on the same snapshot
PeerConstruct ==
    /\ peer = PyNone
    /\ peer' = [history |-> ErrorHistoryTracker_init(PyNone, file, PyNone, max_days).history,
                lastWrite |-> NoWrites, saved |-> FALSE]
    /\ last' = [op |-> "peer_construct"]
    /\ UNCHANGED <<now, file, tracker, config, history, lastWrite, notifier, ops>>

\* tracker.add_error(...) in the second process, both processes holding a
\* tracker
PeerAddError(model_name, error_value, forecast_date, additional_metrics) ==
    /\ tracker
    /\ peer # PyNone
    /\ ops < MaxOps
    /\ ops' = ops + 1
    /\ \E r \in {AddToHistory(peer.history, model_name, error_value, forecast_date,
                              additional_metrics, now)} :
         LET date == DateOrToday(forecast_date, now)
             call == [op |-> "peer_add_error", model_name |-> model_name,
                      error_value |-> error_value, forecast_date |-> date,
                      additional_metrics |-> additional_metrics]
         IN  IF r.raised
             THEN /\ last' = call @@ [ret |-> "raised", io |-> "none"]
                  /\ UNCHANGED <<file, peer>>
             ELSE \E text \in {Dump(r.history)} : \E o \in IoOutcomes(text) :
                    \E s \in {_save_history(text, file, o.io, o.k)} :
                      /\ peer' = [history |-> r.history,
                                  lastWrite |-> [peer.lastWrite EXCEPT
                                                   ![<<model_name, date>>] = error_value],
                                  saved |-> s.ret]
                      /\ file' = s.file
                      /\ last' = call @@ [ret |-> IF s.ret THEN "true" ELSE "false",
                                          io |-> o.io]
    /\ UNCHANGED <<now, tracker, config, history, lastWrite, notifier>>

PeerAddErrorCall ==
    \E model_name \in Models, error_value \in ErrorValues, d \in ForecastDates(now),
       additional_metrics \in MetricsChoices :
         PeerAddError(model_name, error_value, d, additional_metrics)


\* the options of the command and what random draws
GenMaxDays == 2
GenOptions ==
    { [models |-> <<"ARIMA", "GRU">>, days |-> 1, clear |-> FALSE],
      [models |-> <<"LSTM">>, days |-> GenMaxDays, clear |-> FALSE],
      [models |-> <<"LSTM">>, days |-> 1, clear |-> TRUE] }
Draws == {[error |-> 3, sign |-> 1], [error |-> 6, sign |-> -1]}
DrawsFor(options) == [(1..Len(options.models)) \X (0..(options.days - 1)) -> Draws]

\* python manage.py generate_test_errors, the whole command
GenerateTestErrors ==
    /\ ops < MaxOps
    /\ ops' = ops + 1
    /\ \E options \in GenOptions : \E draws \in DrawsFor(options) :
         \E r \in {generate_test_errors(file, options, draws, now)} :
           /\ file' = r.file
           /\ last' = [op |-> "generate_test_errors", options |-> options,
                       raised |-> r.raised]
    /\ UNCHANGED <<now, tracker, config, history, lastWrite, peer, notifier>>

\* the numbers of days the dashboard asks for
DashboardDays == {1, STATS_DAYS}

\* a dashboard view calls get_formatted_error_history(days)
GetFormattedErrorHistory ==
    /\ \E days \in DashboardDays :
         last' = [op |-> "get_formatted_error_history", days |-> days,
                  ret |-> get_formatted_error_history(file, days, now)]
    /\ UNCHANGED <<now, file, tracker, config, history, lastWrite, peer, notifier, ops>>

\* (actual_value, predicted_value) pairs: errors of 5, 7.5, 10, 10 and 15
\* percent, a zero actual with and without a zero prediction, and a negative
\* actual
Forecasts ==
    { <<40, 38>>, <<40, 37>>, <<40, 36>>, <<40, 44>>, <<40, 46>>,
      <<0, 0>>, <<0, 40>>, <<-40, -38>> }

\* the model arima_forecaster.py evaluates
EvaluatedModels == {"ARIMA"}

\* what the environment answers when the notifier is built and used; it is
\* consulted only when the error exceeds the alert threshold
NotifierOutcomes(error_pct) ==
    IF FGt(error_pct, ALERT_THRESHOLD)
    THEN {[credentials |-> FALSE, delivery |-> FALSE],
          [credentials |-> TRUE, delivery |-> FALSE],
          [credentials |-> TRUE, delivery |-> TRUE]}
    ELSE {[credentials |-> TRUE, delivery |-> TRUE]}

\* the outcomes of the file system, consulted only when add_error gets to
\* save the history
SaveOutcomes(trk, h, f) ==
    IF IsDict(IF trk THEN h ELSE _load_history(f))
    THEN {"ok", "write_fails"}
    ELSE {"ok"}

\* evaluate_forecast_and_notify(actual_value, predicted_value, model_name,
\* forecast_date), the whole call, error_pct being what lines 36-39 compute
\* in the float arithmetic of the caller's values; the record of the call
\* is kept with the fields of the caller's record, call
EvaluateWith(error_pct, actual_value, predicted_value, model_name, forecast_date, call) ==
    /\ ops < MaxEvals
    /\ ops' = ops + 1
    /\ \E o \in SaveOutcomes(tracker, history, file) :
       \E hb \in {HistoryBlock(tracker, history, file, o, actual_value, predicted_value,
                               error_pct, model_name, forecast_date, now)} :
       \E env \in NotifierOutcomes(error_pct) :
       \E ab \in {AlertBlock(error_pct, hb.stats, env.credentials, env.delivery)} :
       \E raised \in {Caught(hb.exc) \/ Caught(ab.exc)} :
         LET date == DateOrToday(forecast_date, now)
             writes == IF tracker THEN lastWrite ELSE NoWrites
         IN  /\ tracker' = TRUE
             /\ config' = get_tracker(tracker, config, history, file, PyNone, max_days).config
             /\ history' = hb.history
             /\ file' = hb.file
             /\ lastWrite' = IF hb.add_error = "raised" THEN writes
                             ELSE [writes EXCEPT ![<<model_name, date>>] = error_pct]
             /\ last' = call @@
                        [op |-> "evaluate",
                         actual_value |-> actual_value,
                         predicted_value |-> predicted_value,
                         model_name |-> model_name,
                         forecast_date |-> date,
                         credentials |-> env.credentials,
                         raised |-> raised,
                         ret |-> IF raised THEN PyNone ELSE error_pct,
                         add_error |-> hb.add_error,
                         stats |-> hb.stats,
                         alert |-> ab.alert,
                         exc |-> <<hb.exc, ab.exc>>,
                         calls |-> hb.calls \o ab.calls]
    /\ UNCHANGED <<now, peer, notifier>>

\* a direct call of evaluate_forecast_and_notify, in the arithmetic of exact
\* rationals: the values the pipeline is given are such that no operation
\* rounds
Evaluate(actual_value, predicted_value, model_name, forecast_date) ==
    EvaluateWith(error_pct_of(actual_value, predicted_value), actual_value,
                 predicted_value, model_name, forecast_date, [op |-> "evaluate"])

EvaluateCall ==
    \E f \in Forecasts, model_name \in EvaluatedModels, d \in ForecastDates(now) :
        Evaluate(PyFloat(f[1], 1), PyFloat(f[2], 1), model_name, d)

\* line 42 of test_forecast_alert.py: actual * (1 + error_pct/100)
simulated_prediction(actual, error_pct) ==
    RMul(actual, RAdd(PyFloat(1, 1), RDiv(error_pct, Hundred)))

\* the --actual and --error arguments: floats of the format
SimActuals == {Round(PyFloat(a, 1)) : a \in {1, 40}}
SimErrors ==
    {Round(PyFloat(k, 32)) : k \in {160, 161, 162}} \cup {PyFloat(j, 1) : j \in {0, 9, 12}}

\* test_forecast_alert(actual, None, error_pct, "ARIMA"), the whole call
TestForecastAlert(actual, error_pct) ==
    LET predicted == simulated_prediction(actual, error_pct)
        call == [op |-> "test_forecast_alert", actual |-> actual,
                 error_pct |-> error_pct, predicted |-> predicted]
    IN  \/ \* lines 33-36: no Telegram credentials in the environment
           /\ ops < MaxEvals
           /\ ops' = ops + 1
           /\ last' = call @@ [credentials |-> FALSE, completed |-> FALSE,
                               ret |-> PyNone, calls |-> <<>>]
           /\ UNCHANGED <<now, file, tracker, config, history, lastWrite, peer, notifier>>
        \/ /\ EvaluateWith(error_pct_rounded(actual, predicted), actual, predicted,
                           "ARIMA", PyNone, call @@ [completed |-> TRUE])
           /\ last'.credentials

TestForecastAlertCall ==
    \E actual \in SimActuals, error_pct \in SimErrors : TestForecastAlert(actual, error_pct)

\* a guard that looks at the actual value only
BothAvailable_actual_only(actual_value, forecast_value) == actual_value # PyNone

\* line 350 of arima_forecaster.py: actual_value is not None and
\* forecast_value is not None
BothAvailable(actual_value, forecast_value) ==
    actual_value # PyNone /\ forecast_value # PyNone

\* the result dictionary of forecast_and_evaluate (lines 344-353)
ForecastResult(date, forecast_value) ==
    PyDict(<<[k |-> "date", v |-> PyStr(date)],
             [k |-> "forecast", v |-> forecast_value],
             [k |-> "model", v |-> PyStr(<<"ARIMA">>)]>>)

\* forecast_and_evaluate(data, forecast_date), the whole call, for the value
\* generate_arima_forecast returns and the value
\* get_actual_value_if_available returns (each None when unavailable)
ForecastAndEvaluate(forecast_value, actual_value, forecast_date) ==
    LET date == DateOrToday(forecast_date, now)
        call == [op |-> "forecast_and_evaluate", forecast_value |-> forecast_value,
                 actual_value |-> actual_value, forecast_date |-> date]
    IN  IF ~BothAvailable(actual_value, forecast_value)
        THEN /\ ops < MaxEvals
             /\ ops' = ops + 1
             /\ last' = call @@ [evaluated |-> FALSE, raised |-> FALSE,
                                 result |-> ForecastResult(date, forecast_value),
                                 calls |-> <<>>]
             /\ UNCHANGED <<now, file, tracker, config, history, lastWrite, peer, notifier>>
        ELSE IF actual_value = PyNone \/ forecast_value = PyNone
        THEN \* evaluate_forecast_and_notify is handed None: the arithmetic of
             \* scheduler.py line 39 raises TypeError
             /\ ops < MaxEvals
             /\ ops' = ops + 1
             /\ last' = call @@ [evaluated |-> TRUE, raised |-> TRUE,
                                 result |-> PyNone, calls |-> <<>>]
             /\ UNCHANGED <<now, file, tracker, config, history, lastWrite, peer, notifier>>
        ELSE \E error_pct \in {error_pct_of(actual_value, forecast_value)} :
               EvaluateWith(error_pct, actual_value, forecast_value, "ARIMA", PyStr(date),
                   call @@
                     [evaluated |-> TRUE,
                      result |-> DictSet(DictSet(ForecastResult(date, forecast_value),
                                                 "actual", actual_value),
                                         "error_pct", error_pct)])

\* the values the forecaster and the actuals source answer with
ForecastValues == {PyNone, PyFloat(37, 1), PyFloat(40, 1)}
ActualValues == {PyNone, PyFloat(40, 1), PyFloat(0, 1)}

ForecastAndEvaluateCall ==
    \E forecast_value \in ForecastValues, actual_value \in ActualValues,
       d \in ForecastDates(now) :
        ForecastAndEvaluate(forecast_value, actual_value, d)

\* the arguments and the environment TelegramNotifier is constructed with
TokenArgs == {PyNone, PyStr(<<>>), PyStr(<<"123", "abc">>), PyStr(<<"123", "abc123", "abc">>)}
ChatArgs == {PyNone, PyStr(<<>>), PyStr(<<"42">>)}
TimeZones == {"Asia/Kolkata", "Mars/Olympus"}
Environs ==
    {[TELEGRAM_BOT_TOKEN |-> a, TELEGRAM_CHAT_ID |-> b] :
        a \in {PyNone, PyStr(<<"456", "def">>)}, b \in {PyNone, PyStr(<<"7">>)}}

\* the arguments of send_alert
Severities == {"info", "error", "ERROR", "fatal"}
AlertModels == {PyNone, PyStr(<<"ARIMA">>)}
AlertErrors == {PyNone, PyFloat(35, 4), Inf}
AlertMessages == {"Manual review recommended."}

\* notifier = TelegramNotifier(token, chat_id, timezone): when the
\* constructor raises, the name keeps what it was bound to
NewNotifier ==
    /\ ops < MaxCalls
    /\ ops' = ops + 1
    /\ \E token \in TokenArgs, chat_id \in ChatArgs, timezone \in TimeZones,
          environ \in Environs :
         \E r \in {TelegramNotifier_init(token, chat_id, timezone, environ)} :
           /\ notifier' = IF r.raised THEN notifier ELSE r.self
           /\ last' = [op |-> "TelegramNotifier", token |-> token, chat_id |-> chat_id,
                       environ |-> environ, raised |-> r.raised, exc |-> r.exc,
                       self |-> r.self]
    /\ UNCHANGED <<now, file, tracker, config, history, lastWrite, peer>>

\* notifier.send_alert(message, error_level, model_name, error_value)
SendAlert ==
    /\ notifier # PyNone
    /\ ops < MaxCalls
    /\ ops' = ops + 1
    /\ \E message \in AlertMessages, error_level \in Severities,
          model_name \in AlertModels, error_value \in AlertErrors, http \in HttpOutcomes :
         \E r \in {send_alert(notifier, message, error_level, model_name, error_value,
                              now, http)} :
           last' = [op |-> "send_alert", error_level |-> error_level,
                    model_name |-> model_name, error_value |-> error_value,
                    http |-> http, raised |-> r.raised, exc |-> r.exc, ret |-> r.ret,
                    posts |-> r.posts, formatted_message |-> r.formatted_message]
    /\ UNCHANGED <<now, file, tracker, config, history, lastWrite, peer, notifier>>

\* notifier.test_connection()
TestConnection ==
    /\ notifier # PyNone
    /\ ops < MaxCalls
    /\ ops' = ops + 1
    /\ \E http \in HttpOutcomes :
         \E r \in {test_connection(notifier, http)} :
           last' = [op |-> "test_connection", http |-> http, raised |-> r.raised,
                    exc |-> r.exc, ret |-> r.ret, posts |-> r.posts]
    /\ UNCHANGED <<now, file, tracker, config, history, lastWrite, peer, notifier>>

\* notifier.process_queue(), as test_telegram.py calls it after send_alert:
\* the attribute lookup on the object raises AttributeError for a name the
\* class does not define
ProcessQueue ==
    /\ notifier # PyNone
    /\ ops < MaxCalls
    /\ ops' = ops + 1
    /\ "process_queue" \notin TelegramNotifierMethods
    /\ last' = [op |-> "process_queue", raised |-> TRUE, exc |-> "AttributeError",
                posts |-> <<>>,
                after |-> IF last.op = "send_alert" /\ ~last.raised /\ ~last.ret
                          THEN "failed send_alert" ELSE last.op]
    /\ UNCHANGED <<now, file, tracker, config, history, lastWrite, peer, notifier>>

\* the arguments of the queries: the models written and one never written,
\* a window shorter than the retention window and the window of the
\* scheduler's statistics
QueryModels == Models \cup {"GRU"}
QueryDays == {1, STATS_DAYS}

\* self.history.get(...) of line 151 raises AttributeError when the loaded
\* history is no dict
HistoryGetRaises(h) == ~IsDict(h)

\* a lookup that creates the key it misses (setdefault)
HistoryAfterSetdefault(h, model_name) ==
    IF HasKey(h, model_name) THEN h ELSE DictSet(h, model_name, EmptyDict)

\* the history after self.history.get(model_name, {}) of line 151: the
\* default is returned, never stored
HistoryAfterGet(h, model_name) == h

\* the history after a query of model_name
HistoryAfterQuery(h, model_name) ==
    IF HistoryGetRaises(h) THEN h ELSE HistoryAfterGet(h, model_name)

QueryRaised(call) == call @@ [raised |-> TRUE, exc |-> "AttributeError", ret |-> PyNone]
QueryReturned(call, ret) == call @@ [raised |-> FALSE, exc |-> "none", ret |-> ret]

\* tracker.get_model_history(model_name)
GetModelHistory ==
    /\ tracker
    /\ \E model_name \in QueryModels :
         LET call == [op |-> "get_model_history", model_name |-> model_name]
         IN  /\ history' = HistoryAfterQuery(history, model_name)
             /\ last' = IF HistoryGetRaises(history) THEN QueryRaised(call)
                        ELSE QueryReturned(call, get_model_history(history, model_name))
    /\ UNCHANGED <<now, file, tracker, config, lastWrite, peer, notifier, ops>>

\* tracker.get_recent_errors(model_name, days)
GetRecentErrors ==
    /\ tracker
    /\ \E model_name \in QueryModels, days \in QueryDays :
         LET call == [op |-> "get_recent_errors", model_name |-> model_name, days |-> days]
         IN  /\ history' = HistoryAfterQuery(history, model_name)
             /\ last' = IF HistoryGetRaises(history) THEN QueryRaised(call)
                        ELSE QueryReturned(call, get_recent_errors(history, model_name, days, now))
    /\ UNCHANGED <<now, file, tracker, config, lastWrite, peer, notifier, ops>>

\* tracker.get_error_statistics(model_name, days)
GetErrorStatistics ==
    /\ tracker
    /\ \E model_name \in QueryModels, days \in QueryDays :
         LET call == [op |-> "get_error_statistics", model_name |-> model_name, days |-> days]
         IN  /\ history' = HistoryAfterQuery(history, model_name)
             /\ last' = IF HistoryGetRaises(history) THEN QueryRaised(call)
                        ELSE QueryReturned(call, get_error_statistics(history, model_name, days, now))
    /\ UNCHANGED <<now, file, tracker, config, lastWrite, peer, notifier, ops>>

Next == Tick \/ Construct \/ AddErrorCall \/ Crash \/ Exit

Spec == Init /\ [][Next]_vars

\* the forecasting pipeline: evaluations over the days, across restarts
NextEval == Tick \/ EvaluateCall \/ Exit

SpecEval == Init /\ [][NextEval]_vars

\* the store with callers that ask for the tracker again
NextTracker == Tick \/ Construct \/ AddErrorCall \/ GetTrackerAgain \/ Exit

SpecTracker == Init /\ [][NextTracker]_vars

\* test_forecast_alert.py run over the days
NextSim == Tick \/ TestForecastAlertCall \/ Exit

SpecSim == Init /\ [][NextSim]_vars

\* arima_forecaster.py run over the days, across restarts
NextForecast == Tick \/ ForecastAndEvaluateCall \/ Exit

SpecForecast == Init /\ [][NextForecast]_vars

\* the store with its readers: writes over the days, and the queries
\* add_error calls whose snapshot is written
AddErrorSaved == AddErrorCall /\ last'.io \in {"ok", "none"}

NextQuery ==
    \/ Tick \/ Construct \/ AddErrorSaved \/ Exit
    \/ GetModelHistory \/ GetRecentErrors \/ GetErrorStatistics

SpecQuery == Init /\ [][NextQuery]_vars

\* two processes that loaded the same snapshot and then write; the
\* add_error calls of either are those whose snapshot is written
RaceAddError == AddErrorSaved /\ peer # PyNone

PeerAddErrorSaved == PeerAddErrorCall /\ last'.io \in {"ok", "none"}

NextRace == Tick \/ Construct \/ PeerConstruct \/ RaceAddError \/ PeerAddErrorSaved

SpecRace == Init /\ [][NextRace]_vars

\* the forecasting pipeline beside the dashboard
NextThreshold == Tick \/ EvaluateCall \/ Exit \/ GetFormattedErrorHistory

SpecThreshold == Init /\ [][NextThreshold]_vars

\* the store (add_error calls whose snapshot is written) beside the
\* dashboard and the test-data command
NextDashboard ==
    \/ Tick \/ Construct \/ AddErrorSaved \/ Exit
    \/ GetFormattedErrorHistory \/ GenerateTestErrors

SpecDashboard == Init /\ [][NextDashboard]_vars

\* a client of the notifier: test_telegram.py, the module's __main__ block
NextNotify == NewNotifier \/ SendAlert \/ TestConnection \/ ProcessQueue

SpecNotify == Init /\ [][NextNotify]_vars

(***************************************************************************)
(* Claims about the Error Record Store.                                    *)
(***************************************************************************)
AddErrorReturned == last.op = "add_error" /\ last.ret # "raised"

\* the observation the last add_error call wrote, when the history holds it
HoldsWritten ==
    /\ HasKey(history, last.model_name)
    /\ HasKey(DictGet(history, last.model_name), last.forecast_date)

WrittenEntry == DictGet(DictGet(history, last.model_name), last.forecast_date)

\* C1: the history holds at most one observation per (model_name, date), and
\* the observation held for a key carries the error value passed to the most
\* recent add_error call for that key.
C1_LastWriteWins ==
    IsDict(history) =>
        \A m \in Keys(history) :
            LET mh == DictGet(history, m) IN
            /\ Cardinality(Keys(mh)) = Len(mh.items)
            /\ \A d \in Keys(mh) :
                 lastWrite[<<m, d>>] # PyNone =>
                     DictGet(DictGet(mh, d), "error") = lastWrite[<<m, d>>]

\* C2: right after an add_error call, no model's history holds an entry whose
\* date is more than max_days days before the instant of the call, whichever
\* model was written and wherever the entry came from.
C2_NoOldEntriesAfterAddError ==
    AddErrorReturned =>
        \A m \in Models :
            \A d \in Keys(get_model_history(history, m)) : DayOf(d) >= now - max_days

\* an add_error for one model has pruned the older of the two entries another
\* model had loaded from the snapshot, and kept the newer
C2_Witness ==
    /\ AddErrorReturned
    /\ \E m \in Models \ {last.model_name} :
         /\ HasKey(history, m)
         /\ Keys(DictGet(EarlierSnapshot, m)) = {strftime(FirstDay), strftime(FirstDay + 1)}
         /\ Keys(DictGet(history, m)) = {strftime(FirstDay + 1)}
         /\ DictGet(DictGet(history, m), strftime(FirstDay + 1))
               = DictGet(DictGet(EarlierSnapshot, m), strftime(FirstDay + 1))

SaveFailed == last.op = "add_error" /\ last.io \in {"open_fails", "write_fails"}

\* C3 as stated: when the snapshot cannot be written, add_error returns false
\* and the in-memory history contains the new observation.
C3_FailedSaveKeepsObservation ==
    SaveFailed => last.ret = "false" /\ HoldsWritten

\* C3 as amended: when the snapshot cannot be written, add_error returns false
\* and the in-memory history is the mutated and pruned one: it contains the
\* new observation exactly when its date is not older than max_days days.
C3_FailedSaveKeepsMutation ==
    SaveFailed =>
        /\ last.ret = "false"
        /\ HasKey(history, last.model_name)
        /\ HoldsWritten <=> DayOf(last.forecast_date) >= now - max_days
        /\ \A m \in Keys(history) :
             \A d \in Keys(DictGet(history, m)) : DayOf(d) >= now - max_days

\* a write that failed half way, the observation still in memory
C3_Witness ==
    /\ SaveFailed
    /\ last.io = "write_fails"
    /\ last.ret = "false"
    /\ HoldsWritten
    /\ ~json_load(file.text).ok

\* C4: the stored observation's error field is the error_value passed and its
\* timestamp field is the creation instant, whatever the additional metrics.
C4_ReservedFields ==
    AddErrorReturned /\ HoldsWritten =>
        /\ DictGet(WrittenEntry, "error") = last.error_value
        /\ DictGet(WrittenEntry, "timestamp") = PyStr(isoformat(now))

\* a history of the store's shape: model -> date -> observation
IsHistoryMapping(h) ==
    /\ IsDict(h)
    /\ \A m \in Keys(h) :
         /\ IsDict(DictGet(h, m))
         /\ \A d \in Keys(DictGet(h, m)) : IsDict(DictGet(DictGet(h, m), d))

\* C5: a tracker constructed over missing or malformed storage holds an empty
\* mapping; what it loads is the complete mapping written before, or empty,
\* never a value of another shape.
C5_LoadYieldsMapping ==
    last.op = "construct" =>
        /\ IsHistoryMapping(history)
        /\ history = EmptyDict \/ (file.exists /\ Dump(history) = file.text)

\* same model keys, same date keys, same error values
SameKeysAndErrors(a, b) ==
    /\ IsDict(a) /\ IsDict(b)
    /\ Keys(a) = Keys(b)
    /\ \A m \in Keys(a) :
         /\ Keys(DictGet(a, m)) = Keys(DictGet(b, m))
         /\ \A d \in Keys(DictGet(a, m)) :
              DictGet(DictGet(DictGet(a, m), d), "error")
                  = DictGet(DictGet(DictGet(b, m), d), "error")

\* C6: after an add_error that returned true, a tracker constructed on the
\* same storage location loads the model keys, date keys and error values of
\* the writer's in-memory history.
C6_RoundTrip ==
    last.op = "add_error" /\ last.ret = "true" =>
        SameKeysAndErrors(_load_history(file), history)

\* a saved history that holds an infinite error and a finite one
C6_Witness ==
    /\ last.op = "add_error" /\ last.ret = "true"
    /\ HoldsWritten
    /\ DictGet(WrittenEntry, "error") = Inf
    /\ \E m \in Keys(history) : \E d \in Keys(DictGet(history, m)) :
         ~IsInf(DictGet(DictGet(DictGet(history, m), d), "error"))

\* C7: after a crash inside add_error's rewrite of the snapshot, a tracker
\* constructed on the location loads the complete history from before the
\* call or the complete history from after it.
C7_AtomicSnapshot ==
    last.op = "crash" => _load_history(file) \in {last.before, last.after}

(***************************************************************************)
(* Claims about evaluate_forecast_and_notify.                              *)
(***************************************************************************)
Evaluated == last.op = "evaluate"

\* |actual - predicted| / actual * 100, as written
StatedPctError(a, p) == FMul(FDiv(FAbs(FSub(a, p)), a), Hundred)

\* |actual - predicted| * 100 / |actual|
AbsPctError(a, p) == FDiv(FMul(FAbs(FSub(a, p)), Hundred), FAbs(a))

\* predicted mirrored about actual: actual - d for actual + d
Mirrored(a, p) == FSub(FAdd(a, a), p)

ZeroActualPolicy ==
    last.actual_value = Zero =>
        last.ret = (IF last.predicted_value = Zero THEN Zero ELSE Inf)

\* C8 as stated: for actual # 0 the error is |actual - predicted| / actual *
\* 100, non-negative and the same for predicted = actual + d and actual - d;
\* for actual = 0 it is 0 when predicted = 0 and +infinity otherwise.
C8_ErrorPctAsStated ==
    Evaluated =>
        /\ last.actual_value # Zero =>
             /\ last.ret = StatedPctError(last.actual_value, last.predicted_value)
             /\ FLe(Zero, last.ret)
             /\ last.ret = error_pct_of(last.actual_value,
                                        Mirrored(last.actual_value, last.predicted_value))
        /\ ZeroActualPolicy

\* C8 as amended: for actual # 0 the error is |actual - predicted| / |actual|
\* * 100, non-negative and the same for predicted = actual + d and
\* actual - d; for actual = 0 it is 0 when predicted = 0 and +infinity
\* otherwise.
C8_ErrorPct ==
    Evaluated =>
        /\ last.actual_value # Zero =>
             /\ last.ret = AbsPctError(last.actual_value, last.predicted_value)
             /\ FLe(Zero, last.ret)
             /\ last.ret = error_pct_of(last.actual_value,
                                        Mirrored(last.actual_value, last.predicted_value))
        /\ ZeroActualPolicy

\* a negative actual evaluated to a positive, finite error
C8_Witness ==
    /\ Evaluated
    /\ last.actual_value.num < 0
    /\ FGt(last.ret, Zero)
    /\ ~IsInf(last.ret)

\* C9: up to 5.0 no alert is sent and the observation is still handed to the
\* history; above 5.0 and up to 10.0 an alert is sent with level "error";
\* above 10.0 an alert is sent with level "critical" (given the credentials
\* without which no notifier exists).
C9_SeverityTiers ==
    Evaluated =>
        LET e == error_pct_of(last.actual_value, last.predicted_value) IN
        /\ FLe(e, ALERT_THRESHOLD) =>
             /\ ~last.alert.invoked
             /\ \E i \in 1..Len(last.calls) : last.calls[i] = "add_error"
        /\ FGt(e, ALERT_THRESHOLD) /\ FLe(e, CRITICAL_THRESHOLD) /\ last.credentials =>
             last.alert.invoked /\ last.alert.level = "error"
        /\ FGt(e, CRITICAL_THRESHOLD) /\ last.credentials =>
             last.alert.invoked /\ last.alert.level = "critical"

\* C10: evaluate_forecast_and_notify raises nothing and returns the error
\* percentage, whether or not an alert was dispatched and whatever failed in
\* recording the observation, building the notifier or delivering.
C10_ReturnsErrorPct ==
    Evaluated =>
        /\ ~last.raised
        /\ last.ret = (IF last.actual_value = Zero
                       THEN IF last.predicted_value = Zero THEN Zero ELSE Inf
                       ELSE AbsPctError(last.actual_value, last.predicted_value))

\* recording the observation raised, the alert could not be sent, and the
\* error percentage was returned all the same
C10_Witness ==
    /\ Evaluated
    /\ last.exc[1] # "none"
    /\ last.exc[2] # "none"
    /\ last.ret # PyNone
    /\ FGt(last.ret, ALERT_THRESHOLD)

(***************************************************************************)
(* Claims about the Statistics Engine and the readers of the store.        *)
(***************************************************************************)
Queried(op) == last.op = op /\ ~last.raised

\* the errors get_recent_errors returns for the arguments of the last query
RecentOfQuery ==
    LET pairs == get_recent_errors(history, last.model_name, last.days, now)
    IN  [i \in 1..Len(pairs) |-> pairs[i].error]

\* s is the aggregate of the non-empty sequence of errors xs
IsAggregate(s, xs) ==
    /\ s.count = Len(xs)
    /\ \E i \in 1..Len(xs) : xs[i] = s.min
    /\ \A i \in 1..Len(xs) : FLe(s.min, xs[i])
    /\ \E i \in 1..Len(xs) : xs[i] = s.max
    /\ \A i \in 1..Len(xs) : FLe(xs[i], s.max)
    /\ IF \E i \in 1..Len(xs) : IsInf(xs[i]) THEN IsInf(s.avg)
       ELSE FMul(s.avg, PyFloat(Len(xs), 1)) = FSum(xs)
    /\ s.above_threshold_count
          = Cardinality({i \in 1..Len(xs) : FGt(xs[i], PyFloat(5, 1))})

\* a history whose recent errors are 3.0, 7.0 and 12.0
ExampleHistory ==
    LET e(err) == PyDict(<<[k |-> "error", v |-> PyFloat(err, 1)]>>)
    IN  PyDict(<<[k |-> "ARIMA", v |-> PyDict(<<
                    [k |-> strftime(FirstDay), v |-> e(3)],
                    [k |-> strftime(FirstDay + 1), v |-> e(7)],
                    [k |-> strftime(FirstDay + 2), v |-> e(12)]>>)]>>)

\* C15: get_error_statistics(model, days) is the aggregate of the errors
\* get_recent_errors(model, days) returns on the same history: count 0, null
\* min, max and avg and above_threshold_count 0 when there are none;
\* otherwise their number, extremes, mean and the number strictly above 5.0;
\* it raises exactly when get_recent_errors does.
\* For the errors 3.0, 7.0, 12.0 it is count 3, min 3.0, max 12.0, avg 22/3,
\* above_threshold_count 2.
C15_StatisticsAggregate ==
    last.op = "get_error_statistics" =>
        /\ IF HistoryGetRaises(history) THEN last.raised /\ last.exc = "AttributeError"
           ELSE /\ ~last.raised
                /\ IF RecentOfQuery = <<>>
                   THEN last.ret = [count |-> 0, min |-> PyNone, max |-> PyNone,
                                    avg |-> PyNone, above_threshold_count |-> 0]
                   ELSE IsAggregate(last.ret, RecentOfQuery)
        /\ get_error_statistics(ExampleHistory, "ARIMA", STATS_DAYS, FirstDay + 2)
              = [count |-> 3, min |-> PyFloat(3, 1), max |-> PyFloat(12, 1),
                 avg |-> PyFloat(22, 3), above_threshold_count |-> 2]

\* statistics over a window that leaves out an older entry the history still
\* holds: fewer errors than the model has entries, one of them above 5.0
C15_Witness ==
    /\ Queried("get_error_statistics")
    /\ last.ret.count >= 1
    /\ last.ret.count < Len(get_model_history(history, last.model_name).items)
    /\ last.ret.above_threshold_count >= 1

\* the (date, error) pairs of the queried model's history whose date lies in
\* the trailing window of the last query
PairsInWindow ==
    LET mh == IF HasKey(history, last.model_name)
              THEN DictGet(history, last.model_name) ELSE EmptyDict
    IN  {[date |-> d, error |-> DictGet(DictGet(mh, d), "error")] :
            d \in {k \in Keys(mh) : DayOf(k) >= now - last.days /\ DayOf(k) <= now}}

\* C16: get_recent_errors(model, days) returns exactly the (date, error)
\* pairs of the model's history whose date lies within the trailing days
\* window from the instant of the query, sorted ascending by date, and an
\* empty sequence for an unknown model.
C16_RecentErrors ==
    last.op = "get_recent_errors" =>
        /\ ~last.raised
        /\ {last.ret[i] : i \in 1..Len(last.ret)} = PairsInWindow
        /\ Len(last.ret) = Cardinality(PairsInWindow)
        /\ \A i, j \in 1..Len(last.ret) :
             i < j => DayOf(last.ret[i].date) < DayOf(last.ret[j].date)
        /\ last.model_name \notin Models => last.ret = <<>>

\* the dates of a mapping, in the order the mapping yields them
DatesInOrder(d) == [i \in 1..Len(d.items) |-> d.items[i].k]

\* C17: get_model_history(model) returns the model's observations as a
\* mapping ordered by date, whatever the order of the add_error calls, and
\* an empty mapping for a model never written.
C17_HistoryOrderedByDate ==
    Queried("get_model_history") =>
        /\ \A i, j \in 1..Len(last.ret.items) :
             i < j => DayOf(DatesInOrder(last.ret)[i]) < DayOf(DatesInOrder(last.ret)[j])
        /\ ~HasKey(history, last.model_name) => last.ret = EmptyDict

\* C18: after any add_error calls the number of observations kept for a
\* model is bounded by the retention window, and the stored map holds no
\* entry that pruning can never remove: no model key without observations.
C18_BoundedGrowth ==
    AddErrorReturned =>
        \A m \in Keys(history) :
            /\ Len(DictGet(history, m).items) <= max_days + 1
            /\ Len(DictGet(history, m).items) >= 1

(***************************************************************************)
(* Claims about the alert of evaluate_forecast_and_notify.                 *)
(***************************************************************************)
\* the last evaluation found an error above 5.0 and a notifier could be built
AlertWorthy ==
    /\ Evaluated
    /\ FGt(error_pct_of(last.actual_value, last.predicted_value), PyFloat(5, 1))
    /\ last.credentials

\* the 7-day statistics are available and the error exceeds 1.5 times their
\* average
ExceedsTrend ==
    /\ last.stats.avg # PyNone
    /\ FGt(error_pct_of(last.actual_value, last.predicted_value),
           FMul(PyFloat(3, 2), last.stats.avg))

\* C19: when evaluate_forecast_and_notify alerts (error above 5.0), the
\* message sent carries the clause about the 7-day average if and only if
\* the statistics are available and the error exceeds 1.5 times the average;
\* otherwise it is the plain tier message.
C19_TrendClause ==
    AlertWorthy => last.alert.invoked /\ (last.alert.trend <=> ExceedsTrend)

\* C20: whenever the error is above 5.0 and a notifier can be built,
\* send_alert is invoked exactly once in the call, whatever the recorded
\* history.
C20_AlertAttempted ==
    AlertWorthy =>
        /\ last.alert.invoked
        /\ Cardinality({i \in 1..Len(last.calls) : last.calls[i] = "send_alert"}) = 1

(***************************************************************************)
(* Claims about the full rewrite of the snapshot.                          *)
(***************************************************************************)
\* C22: after an add_error that returned true the snapshot is the
\* serialisation of the whole in-memory history as it stands after pruning,
\* all models and all retained dates, and nothing else.
C22_SnapshotIsWholeHistory ==
    last.op = "add_error" /\ last.ret = "true" =>
        /\ file.exists
        /\ file.text = Dump(history)
        /\ history = _prune_old_entries(history, now)

\* a saved history with an entry of a model other than the one just written
C22_Witness ==
    /\ last.op = "add_error" /\ last.ret = "true"
    /\ \E m \in Keys(history) :
         /\ m # last.model_name
         /\ Keys(DictGet(history, m)) # {}

\* history h holds an observation for (model m, date d)
Holds(h, m, d) == IsDict(h) /\ HasKey(h, m) /\ HasKey(DictGet(h, m), d)

\* every observation the other writer wrote and the writer of the snapshot
\* does not hold is absent from the snapshot
OthersWritesLost(winner, others) ==
    \A m \in Models, d \in DateStrs :
        others[<<m, d>>] # PyNone /\ ~Holds(winner, m, d)
            => ~Holds(_load_history(file), m, d)

WroteOldDate == AddErrorReturned /\ DayOf(last.forecast_date) < now - max_days

\* C27: pruning is relative to the instant of the call: an add_error for a
\* date older than max_days days before now returns true when the snapshot
\* was written, the observation is absent from get_model_history right after
\* the call, and the model key remains in the history.
C27_OldDatePrunedAtOnce ==
    WroteOldDate =>
        /\ last.io = "ok" => last.ret = "true"
        /\ ~HasKey(get_model_history(history, last.model_name), last.forecast_date)
        /\ HasKey(history, last.model_name)

\* a first observation of a model, written for an old date: the call
\* returned true and left the model with an empty history
C27_Witness ==
    /\ WroteOldDate
    /\ last.ret = "true"
    /\ HasKey(history, last.model_name)
    /\ get_model_history(history, last.model_name) = EmptyDict

(***************************************************************************)
(* Claims about the read accessors.                                        *)
(***************************************************************************)
QueryOps == {"get_model_history", "get_recent_errors", "get_error_statistics"}

\* the step is a call of a read accessor, or leaves the call last made one
\* (the passing of a day)
QueryStep == last'.op \in QueryOps

\* C25: get_model_history, get_recent_errors and get_error_statistics leave
\* the in-memory history and the snapshot unchanged, for known and unknown
\* model names alike.
C25_QueriesChangeNothing ==
    [][QueryStep => history' = history /\ file' = file]_vars

\* each accessor has answered for a model the history has no key for, over a
\* history and a snapshot that hold another model
C25_Witness ==
    /\ last.op \in QueryOps
    /\ ~last.raised
    /\ last.model_name = "GRU"
    /\ IsDict(history) /\ Keys(history) # {}
    /\ ~HasKey(history, "GRU")
    /\ file.exists

(***************************************************************************)
(* Claims about the process-wide tracker.                                  *)
(***************************************************************************)
\* C30: once the process has its tracker, every get_tracker call returns
\* that instance with the history it holds, and the call's history_file and
\* max_days arguments change neither its configuration nor its history.
C30_OneTrackerPerProcess ==
    [][tracker /\ last'.op = "get_tracker" =>
         /\ last'.ret = config.id
         /\ config' = config
         /\ history' = history
         /\ file' = file]_vars

\* a later call with another path and another retention, on a tracker whose
\* history differs from what a construction at either path would load
\* (its last save failed)
C30_Witness ==
    /\ last.op = "get_tracker"
    /\ last.history_file # PyNone
    /\ last.history_file # config.history_file
    /\ last.max_days # config.max_days
    /\ IsDict(history) /\ Keys(history) # {}
    /\ _load_history(file) # history

(***************************************************************************)
(* Claims about who writes the snapshot.                                   *)
(***************************************************************************)
\* C24: only the Error Record Store writes the snapshot: whenever the file
\* changes, the step is an add_error call; the dashboard helper and every
\* other component leave the file as it is.
C24_OnlyStoreWrites ==
    [][file' # file => last'.op = "add_error"]_vars

(***************************************************************************)
(* Claims about the shared threshold.                                      *)
(***************************************************************************)
\* the model_data the dashboard result shows for model m, if any
Shown(result, m) == SelectSeq(result.models, LAMBDA md : md.name = m)

\* the violations the dashboard result counts for model m
DashViolations(result, m) ==
    IF Shown(result, m) = <<>> THEN 0 ELSE Shown(result, m)[1].violations

\* the items the dashboard result flags as violations for model m
DashFlagged(result, m) ==
    IF Shown(result, m) = <<>> THEN {}
    ELSE {it.date : it \in {Shown(result, m)[1].errors[i] :
                              i \in 1..Len(Shown(result, m)[1].errors)} \cap
                            {it \in {Shown(result, m)[1].errors[i] :
                                       i \in 1..Len(Shown(result, m)[1].errors)} :
                               it.is_violation}}

\* the dates of model m in history h, within days days of t, whose error
\* exceeds 5.0
Above5(h, m, days, t) ==
    {d \in Keys(get_model_history(h, m)) :
        /\ DayOf(d) >= t - days
        /\ FGt(DictGet(DictGet(DictGet(h, m), d), "error"), PyFloat(5, 1))}

\* over the snapshot of history h the dashboard result and the statistics
\* count, for every model, the observations above 5.0 and no others
ThresholdsAgree(result, h, days, t) ==
    \A m \in Keys(h) :
        /\ get_error_statistics(h, m, days, t).above_threshold_count
               = Cardinality(Above5(h, m, days, t))
        /\ DashViolations(result, m) = Cardinality(Above5(h, m, days, t))
        /\ DashFlagged(result, m) = Above5(h, m, days, t)

\* C26: the 5.0 threshold is the same in the three components: an
\* evaluation enters the alert branch exactly when its error exceeds 5.0,
\* and over the snapshot it has saved, the statistics' above_threshold_count,
\* the dashboard's violation counter and the dashboard's is_violation flags
\* single out exactly the observations whose error exceeds 5.0.
C26_OneThreshold ==
    /\ Evaluated =>
         /\ (\E i \in 1..Len(last.calls) : last.calls[i] = "TelegramNotifier")
                <=> FGt(last.ret, PyFloat(5, 1))
         /\ last.add_error = "true" =>
              \A days \in DashboardDays :
                  ThresholdsAgree(get_formatted_error_history(file, days, now),
                                  history, days, now)
    /\ last.op = "get_formatted_error_history" /\ IsDict(history)
            /\ file.exists /\ file.text = Dump(history) =>
         ThresholdsAgree(last.ret, history, last.days, now)

\* the dashboard shows a history with an error of exactly 5.0 and an error
\* above it: one violation among two forecasts
C26_Witness ==
    /\ last.op = "get_formatted_error_history"
    /\ IsDict(history) /\ file.exists /\ file.text = Dump(history)
    /\ last.ret.total_forecasts = 2
    /\ last.ret.threshold_violations = 1
    /\ \E d \in Keys(get_model_history(history, "ARIMA")) :
         DictGet(DictGet(DictGet(history, "ARIMA"), d), "error") = PyFloat(5, 1)

(***************************************************************************)
(* Claims about the control flow of evaluate_forecast_and_notify.          *)
(***************************************************************************)
\* every call of a precedes every call of b in the last evaluation
Precedes(a, b) ==
    \A i, j \in 1..Len(last.calls) :
        last.calls[i] = a /\ last.calls[j] = b => i < j

\* the date of the last evaluation lies in the window of the 7-day
\* statistics and in the retention window (the default retention of 30 days
\* contains the 7 days)
InStatsWindow ==
    /\ DayOf(last.forecast_date) >= now - STATS_DAYS
    /\ DayOf(last.forecast_date) >= now - max_days

\* C21: within one evaluation the observation is persisted with add_error,
\* then the 7-day statistics are queried, and only then is a notification
\* attempted; the statistics used for the alert are those of the history
\* that holds the observation just recorded, and they count it when its date
\* lies in the window.
C21_StepsOrdered ==
    Evaluated =>
        /\ Precedes("add_error", "get_error_statistics")
        /\ Precedes("add_error", "TelegramNotifier")
        /\ Precedes("get_error_statistics", "TelegramNotifier")
        /\ Precedes("TelegramNotifier", "send_alert")
        /\ last.add_error # "raised" =>
             /\ last.stats = get_error_statistics(history, last.model_name, STATS_DAYS, now)
             /\ InStatsWindow =>
                  \E i \in 1..Len(get_recent_errors(history, last.model_name, STATS_DAYS, now)) :
                      get_recent_errors(history, last.model_name, STATS_DAYS, now)[i]
                          = [date |-> last.forecast_date, error |-> last.ret]

\* an alert sent on statistics of two observations, the larger of them the
\* one just recorded
C21_Witness ==
    /\ Evaluated
    /\ last.alert.invoked
    /\ InStatsWindow
    /\ last.stats.count = 2
    /\ last.stats.max = last.ret
    /\ last.stats.min # last.ret

\* the last call of forecast_and_evaluate had no actual value or no forecast
Skipped ==
    /\ last.op = "forecast_and_evaluate"
    /\ last.actual_value = PyNone \/ last.forecast_value = PyNone

\* C28: forecast_and_evaluate calls evaluate_forecast_and_notify exactly
\* when the actual value and the forecast value are both available; when
\* either is absent the call records no observation (history, snapshot and
\* tracker are as before), attempts no alert, and its result has no
\* error_pct.
C28_SkipsWithoutBothValues ==
    [][last'.op = "forecast_and_evaluate" =>
         /\ last'.evaluated <=> ~Skipped'
         /\ Skipped' =>
              /\ last'.calls = <<>>
              /\ ~HasKey(last'.result, "error_pct")
              /\ history' = history /\ file' = file /\ tracker' = tracker]_vars

\* a run with a forecast and no actual value, over a store that holds an
\* observation of an earlier run
C28_Witness ==
    /\ Skipped
    /\ last.forecast_value # PyNone
    /\ tracker /\ IsDict(history) /\ HasKey(history, "ARIMA")
    /\ Keys(DictGet(history, "ARIMA")) # {}
    /\ DictGet(last.result, "forecast") = last.forecast_value

(***************************************************************************)
(* Claims about the simulated error of test_forecast_alert.                *)
(***************************************************************************)
\* the last call of test_forecast_alert evaluated its pair
Simulated == last.op = "test_forecast_alert" /\ last.completed

\* the evaluation entered the alert branch of line 84
AlertBranch == \E i \in 1..Len(last.calls) : last.calls[i] = "TelegramNotifier"

\* the distance the rounding of the six float operations can put between
\* the target error e and the error returned: (100 + e) * 2^(3 - Precision)
RoundingBound(e) == FMul(FAdd(Hundred, e), PyFloat(8, TwoTo(Precision)))

\* C29 as stated: the error returned for (actual, actual * (1 + e/100)) is
\* e, and every e above 5 reaches the alert branch.
C29_SimulatedErrorExact ==
    Simulated =>
        /\ last.ret = last.error_pct
        /\ FGt(last.error_pct, PyFloat(5, 1)) => AlertBranch

\* C29: the error returned for (actual, actual * (1 + e/100)) is e up to
\* the rounding of the float operations, and an e that exceeds 5 by more
\* than that rounding reaches the alert branch.
C29_SimulatedErrorRounded ==
    Simulated =>
        /\ FLe(FAbs(FSub(last.ret, last.error_pct)), RoundingBound(last.error_pct))
        /\ FGt(FSub(last.error_pct, PyFloat(5, 1)), RoundingBound(last.error_pct))
               => AlertBranch

\* a target error far enough above 5: the error returned is another number,
\* within the bound, and the alert branch is entered
C29_Witness ==
    /\ Simulated
    /\ FGt(FSub(last.error_pct, PyFloat(5, 1)), RoundingBound(last.error_pct))
    /\ last.ret # last.error_pct
    /\ AlertBranch

(***************************************************************************)
(* Claims about Notification Delivery.                                     *)
(***************************************************************************)
\* the messages a notifier object holds for redelivery: its retry queue, if
\* the object has one
Pending(n) == IF "retry_queue" \in DOMAIN n THEN n.retry_queue ELSE <<>>

FailedDelivery == last.op = "send_alert" /\ ~last.raised /\ last.http # "200"

\* C11: when a delivery attempt of send_alert fails (exception, timeout or
\* non-success response), send_alert returns false and the formatted message
\* is pending in the notifier's retry queue after the call.
C11_FailedAlertQueued ==
    FailedDelivery =>
        /\ last.ret = FALSE
        /\ \E i \in 1..Len(Pending(notifier)) :
             Pending(notifier)[i] = last.formatted_message

\* C12: process_queue returns after attempting redelivery of each queued
\* message once; called after a failed send_alert it posts that message
\* again and leaves the queue empty when the delivery succeeds.
C12_ProcessQueueRedelivers ==
    last.op = "process_queue" =>
        /\ ~last.raised
        /\ last.after = "failed send_alert" =>
             /\ Len(last.posts) = 1
             /\ Pending(notifier) = <<>>

\* C13: on a constructed notifier, send_alert and test_connection return a
\* boolean and raise nothing, for every outcome of the HTTP call and every
\* severity, model name and error value.
C13_SendNeverRaises ==
    last.op \in {"send_alert", "test_connection"} =>
        /\ ~last.raised
        /\ last.ret \in BOOLEAN

\* C14: a construction in which the token or the chat id is neither passed
\* nor set in the environment raises ValueError and yields no object, so
\* every notifier that exists holds a token and a chat id, and so does every
\* request posted.
C14_NoNotifierWithoutCredentials ==
    /\ last.op = "TelegramNotifier" =>
         LET token_absent == last.token = PyNone /\ last.environ.TELEGRAM_BOT_TOKEN = PyNone
             chat_absent == last.chat_id = PyNone /\ last.environ.TELEGRAM_CHAT_ID = PyNone
         IN  token_absent \/ chat_absent =>
                 last.raised /\ last.exc = "ValueError" /\ last.self = PyNone
    /\ notifier # PyNone => Truthy(notifier.token) /\ Truthy(notifier.chat_id)
    /\ last.op \in {"send_alert", "test_connection"} =>
         \A i \in 1..Len(last.posts) :
             Truthy(last.posts[i].token) /\ Truthy(last.posts[i].chat_id)

\* a construction refused although a token was passed: the chat id is
\* missing, and the notifier built before it is still the one in use
C14_Witness ==
    /\ last.op = "TelegramNotifier"
    /\ last.raised
    /\ Truthy(last.token)
    /\ ~Truthy(PyOr(last.chat_id, last.environ.TELEGRAM_CHAT_ID))
    /\ notifier # PyNone

====
